---- MODULE Spec2Model ----
(***************************************************************************)
(* backman: REST handlers of router/api/backup.go, the asynchronous backup *)
(* job they launch, the redis executor's Restore, and the configuration    *)
(* resolution of config/config.go.                                         *)
(*                                                                         *)
(* Strings that pass through url.QueryUnescape are sequences of one-       *)
(* character strings; service types are plain strings.                     *)
(***************************************************************************)
EXTENDS Integers, Sequences, FiniteSets, TLC

\* ------------------------------------------------------------------ bounds
MaxJobs == 2        \* goroutines launched by CreateBackup in one run

\* ------------------------------------------------------- url.QueryUnescape
HexDigits == {"0", "1", "2", "3", "4", "5", "6", "7", "8", "9",
              "a", "b", "c", "d", "e", "f", "A", "B", "C", "D", "E", "F"}

ishex(c) == c \in HexDigits

unhex(c) ==
  CASE c = "0" -> 0 [] c = "1" -> 1 [] c = "2" -> 2 [] c = "3" -> 3
    [] c = "4" -> 4 [] c = "5" -> 5 [] c = "6" -> 6 [] c = "7" -> 7
    [] c = "8" -> 8 [] c = "9" -> 9
    [] c \in {"a", "A"} -> 10 [] c \in {"b", "B"} -> 11
    [] c \in {"c", "C"} -> 12 [] c \in {"d", "D"} -> 13
    [] c \in {"e", "E"} -> 14 [] c \in {"f", "F"} -> 15

\* The bytes the model's alphabet can name; any other byte prints as "?".
ByteChar(n) ==
  CASE n = 100 -> "d" [] n = 98 -> "b" [] n = 107 -> "k" [] n = 118 -> "v"
    [] n = 97 -> "a" [] n = 120 -> "x" [] n = 47 -> "/" [] n = 37 -> "%"
    [] n = 32 -> " " [] OTHER -> "?"

\* First pass of unescape: every '%' is followed by two hex digits.
RECURSIVE EscapesValid(_)
EscapesValid(s) ==
  IF s = <<>> THEN TRUE
  ELSE IF Head(s) = "%"
       THEN /\ Len(s) >= 3
            /\ ishex(s[2])
            /\ ishex(s[3])
            /\ EscapesValid(SubSeq(s, 4, Len(s)))
       ELSE EscapesValid(Tail(s))

\* Second pass: "%XY" becomes the byte, '+' becomes a space.
RECURSIVE Decode(_)
Decode(s) ==
  IF s = <<>> THEN <<>>
  ELSE IF Head(s) = "%"
       THEN <<ByteChar(unhex(s[2]) * 16 + unhex(s[3]))>> \o Decode(SubSeq(s, 4, Len(s)))
       ELSE IF Head(s) = "+"
            THEN <<" ">> \o Decode(Tail(s))
            ELSE <<Head(s)>> \o Decode(Tail(s))

QueryUnescape(s) ==
  IF EscapesValid(s) THEN [err |-> FALSE, val |-> Decode(s)]
  ELSE [err |-> TRUE, val |-> <<>>]

\* filepath.Base on a slash-separated path: trailing slashes are dropped, the
\* last element is returned, an empty path is ".", a path of slashes is "/".
RECURSIVE StripTrailingSlashes(_)
StripTrailingSlashes(p) ==
  IF p # <<>> /\ p[Len(p)] = "/" THEN StripTrailingSlashes(SubSeq(p, 1, Len(p) - 1))
  ELSE p

RECURSIVE LastElement(_)
LastElement(p) ==
  IF \E i \in 1..Len(p) : p[i] = "/"
  THEN LastElement(Tail(p))
  ELSE p

Base(path) ==
  IF path = <<>> THEN <<".">>
  ELSE LET q == StripTrailingSlashes(path)
       IN IF q = <<>> THEN <<"/">> ELSE LastElement(q)

\* ------------------------------------------------------ services and types
PostgresType == "postgres"
RedisType == "redis"

\* config.IsValidServiceType
ValidServiceTypes == {PostgresType, RedisType}
IsValidServiceType(t) == t \in ValidServiceTypes

\* The service instances bound to the application.
PG == [Type |-> PostgresType, Name |-> <<"d", "b">>]
RD == [Type |-> RedisType, Name |-> <<"k", "v">>]
Services == {PG, RD}
RedisServices == {s \in Services : s.Type = RedisType}

NoService == [Type |-> "", Name |-> <<>>]

\* service.GetService: the instance of that type and name, or the zero value.
GetService(serviceType, serviceName) ==
  IF \E s \in Services : s.Type = serviceType /\ s.Name = serviceName
  THEN CHOOSE s \in Services : s.Type = serviceType /\ s.Name = serviceName
  ELSE NoService

\* getAPIService: the descriptor answered for a service instance.
getAPIService(s) == [Name |-> s.Name, Type |-> s.Type]

\* ------------------------------------------------------------ state tracker
Phases == {"idle", "queued", "running", "succeeded", "failed"}
IdleState == [kind |-> "none", phase |-> "idle", file |-> <<>>]

Busy(st, s) == st[s].phase \in {"queued", "running"}

\* Reserve(key, kind): refused (BusyError) while the key is queued or running,
\* otherwise the entry is overwritten with phase queued.
Reserve(st, s, kind) ==
  IF Busy(st, s) THEN [busy |-> TRUE, st |-> st]
  ELSE [busy |-> FALSE,
        st |-> [st EXCEPT ![s] = [kind |-> kind, phase |-> "queued", file |-> <<>>]]]

MarkRunning(st, s) == [st EXCEPT ![s].phase = "running"]

MarkSucceeded(st, s, filename) ==
  [st EXCEPT ![s].phase = "succeeded", ![s].file = filename]

MarkFailed(st, s, kind, filename) ==
  [st EXCEPT ![s] = [kind |-> kind, phase |-> "failed", file |-> filename]]

\* state.RestoreQueue(service): the reservation of a restore; the caller in
\* redis.Restore takes no result from it.
RestoreQueue(st, s) == Reserve(st, s, "restore").st

\* state.RestoreFailure(service, filename)
RestoreFailure(st, s, filename) == MarkFailed(st, s, "restore", filename)

\* ------------------------------------------------------------------ catalog
\* Go slices: a nil slice and an empty slice differ, and encode differently.
NilSlice == [nil |-> TRUE, elems |-> <<>>]
MakeSlice == [nil |-> FALSE, elems |-> <<>>]
AppendSlice(sl, x) == [nil |-> FALSE, elems |-> Append(sl.elems, x)]
\* encoding/json: a nil slice is null, any other slice is an array.
JSON(sl) == [null |-> sl.nil, array |-> sl.elems]

\* A slice as the service layer builds it by appending to a nil slice.
RECURSIVE AppendAll(_, _)
AppendAll(sl, seq) ==
  IF seq = <<>> THEN sl ELSE AppendAll(AppendSlice(sl, Head(seq)), Tail(seq))

ObjectKey(s, filename) == <<s.Type, s.Name, filename>>

NewFile(s, filename, modified) ==
  [Key |-> ObjectKey(s, filename), Filepath |-> <<s.Type, s.Name>>,
   Filename |-> filename, Size |-> Len(filename), LastModified |-> modified]

DigitChar(n) ==
  CASE n = 0 -> "0" [] n = 1 -> "1" [] n = 2 -> "2" [] n = 3 -> "3"
    [] n = 4 -> "4" [] n = 5 -> "5" [] OTHER -> "9"

\* {name}_{timestamp}: the artifact a backup job writes.
ArtifactName(s, ts) == s.Name \o <<"_", DigitChar(ts)>>

\* What the bucket may hold for a service when the process starts: nothing,
\* one artifact, or a placeholder object whose key ends with a slash.
InitialListings(s) ==
  {<<>>, <<NewFile(s, <<"a">>, 0)>>, <<NewFile(s, <<>>, 0)>>}

\* service.GetBackups: one record per service matching the type and the name,
\* an empty type or name matching every service; an error on a storage failure.
MatchingServices(serviceType, serviceName) ==
  {s \in Services : /\ (serviceType = "" \/ s.Type = serviceType)
                    /\ (serviceName = <<>> \/ s.Name = serviceName)}

RECURSIVE SetToSeq(_)
SetToSeq(S) ==
  IF S = {} THEN <<>>
  ELSE LET x == CHOOSE x \in S : TRUE IN <<x>> \o SetToSeq(S \ {x})

ServiceBackup(cat, s) == [Service |-> s, Files |-> AppendAll(NilSlice, cat[s])]

GetBackupsLookup(cat, serviceType, serviceName, storageFails) ==
  IF storageFails THEN [err |-> "storage", backups |-> <<>>]
  ELSE LET found == SetToSeq(MatchingServices(serviceType, serviceName))
       IN [err |-> "", backups |-> [i \in 1..Len(found) |-> ServiceBackup(cat, found[i])]]

\* service.GetBackup: the record of one service filtered to the artifact of
\* that filename; an error when the service is unknown or the storage fails.
GetBackupLookup(cat, serviceType, serviceName, filename, storageFails) ==
  LET s == GetService(serviceType, serviceName)
  IN IF storageFails THEN [err |-> "storage", backup |-> [Service |-> NoService, Files |-> NilSlice]]
     ELSE IF s = NoService
          THEN [err |-> "notfound", backup |-> [Service |-> NoService, Files |-> NilSlice]]
          ELSE [err |-> "",
                backup |-> [Service |-> s,
                            Files |-> AppendAll(NilSlice,
                                        SelectSeq(cat[s], LAMBDA f : f.Filename = filename))]]

\* service.DeleteBackup: Catalog.Delete by the derived key.
DeleteBackupResult(cat, serviceType, serviceName, filename, storageFails) ==
  LET s == GetService(serviceType, serviceName)
  IN IF storageFails THEN [err |-> "storage", cat |-> cat]
     ELSE IF s = NoService \/ ~\E i \in 1..Len(cat[s]) : cat[s][i].Filename = filename
          THEN [err |-> "notfound", cat |-> cat]
          ELSE [err |-> "",
                cat |-> [cat EXCEPT ![s] = SelectSeq(cat[s], LAMBDA f : f.Filename # filename)]]

\* ---------------------------------------------------------- HTTP responses
StatusOK == 200
StatusAccepted == 202
StatusNoContent == 204
StatusBadRequest == 400
StatusNotFound == 404
StatusInternalServerError == 500

NoCall == [fn |-> "none", type |-> "", name |-> <<>>, file |-> <<>>, err |-> ""]

\* getAPIBackup
RECURSIVE CopyFiles(_, _)
CopyFiles(files, seq) ==
  IF seq = <<>> THEN files
  ELSE CopyFiles(AppendSlice(files, [Key |-> Head(seq).Key, Filepath |-> Head(seq).Filepath,
                                     Filename |-> Head(seq).Filename, Size |-> Head(seq).Size,
                                     LastModified |-> Head(seq).LastModified]),
                 Tail(seq))

getAPIBackup(backup) ==
  [Service |-> getAPIService(backup.Service),
   Files |-> JSON(CopyFiles(MakeSlice, backup.Files.elems))]

\* Handler.ListBackups: the answer, given the request and the lookup's result.
ListBackupsNilSlice(lookup) ==
  IF lookup.err # "" THEN [status |-> StatusNotFound, body |-> lookup.err]
  ELSE [status |-> StatusOK,
        body |-> JSON(AppendAll(NilSlice,
                   [i \in 1..Len(lookup.backups) |-> getAPIBackup(lookup.backups[i])]))]

ListBackupsResponse(lookup) ==
  IF lookup.err # "" THEN [status |-> StatusNotFound, body |-> lookup.err]
  ELSE [status |-> StatusOK,
        body |-> JSON(AppendAll(MakeSlice,
                   [i \in 1..Len(lookup.backups) |-> getAPIBackup(lookup.backups[i])]))]

\* Handler.GetBackups
GetBackupsResponse(lookup) ==
  IF lookup.err # "" THEN [status |-> StatusNotFound, body |-> lookup.err]
  ELSE IF Len(lookup.backups) # 1
       THEN [status |-> StatusNotFound, body |-> "backups not found"]
       ELSE [status |-> StatusOK, body |-> getAPIBackup(lookup.backups[1])]

\* Handler.GetBackup
GetBackupNoFileCheck(lookup) ==
  IF lookup.err # "" THEN [status |-> StatusNotFound, body |-> lookup.err]
  ELSE [status |-> StatusOK, body |-> getAPIBackup(lookup.backup)]

GetBackupResponse(lookup) ==
  IF lookup.err # "" THEN [status |-> StatusNotFound, body |-> lookup.err]
  ELSE IF \/ Len(lookup.backup.Files.elems) = 0
          \/ Len(lookup.backup.Files.elems[1].Filename) = 0
       THEN [status |-> StatusNotFound, body |-> "file not found"]
       ELSE [status |-> StatusOK, body |-> getAPIBackup(lookup.backup)]

\* Handler.DeleteBackup
DeleteBackupResponse(result) ==
  IF result.err # "" THEN [status |-> StatusInternalServerError, body |-> result.err]
  ELSE [status |-> StatusNoContent, body |-> "no content"]

\* Handler.CreateBackup up to the launch of the goroutine: the answer, and the
\* service instance a job is launched for (NoService: none is launched).
CreateBackupNoTypeCheck(serviceType, rawName) ==
  LET name == QueryUnescape(rawName)
      serviceInstance == GetService(serviceType, name.val)
  IN IF name.err
     THEN [status |-> StatusBadRequest, body |-> "invalid service name", launch |-> NoService]
     ELSE IF Len(serviceInstance.Name) = 0
          THEN [status |-> StatusNotFound, body |-> "could not find service",
                launch |-> NoService]
          ELSE [status |-> StatusAccepted, body |-> getAPIService(serviceInstance),
                launch |-> serviceInstance]

CreateBackupOutcome(serviceType, rawName) ==
  LET name == QueryUnescape(rawName)
      serviceInstance == GetService(serviceType, name.val)
  IN IF name.err
     THEN [status |-> StatusBadRequest, body |-> "invalid service name", launch |-> NoService]
     ELSE IF ~IsValidServiceType(serviceType)
          THEN [status |-> StatusBadRequest, body |-> "unsupported service type",
                launch |-> NoService]
          ELSE IF Len(serviceInstance.Name) = 0
               THEN [status |-> StatusNotFound, body |-> "could not find service",
                     launch |-> NoService]
               ELSE [status |-> StatusAccepted, body |-> getAPIService(serviceInstance),
                     launch |-> serviceInstance]

\* log.Errorf in the goroutine: the process goes on.  (log.Fatalf would end it.)
Fatalf(running) == FALSE
Errorf(running) == running

\* ------------------------------------------------------------ config.new
\* A configuration is [top, services]: top maps every option of Config (the
\* S3 and Teams options by their path) to its value, services maps a service
\* name to the options of its Service.  Timeouts are in milliseconds; list
\* elements are sequences of characters.
IntFields == {"Port"}
StringFields ==
  {"LogLevel", "Username", "Password", "Teams.Webhook", "S3.ServiceType",
   "S3.ServiceLabel", "S3.ServiceName", "S3.BucketName", "S3.EncryptionKey",
   "S3.Host", "S3.AccessKey", "S3.SecretKey"}
BoolFields ==
  {"LoggingTimestamp", "DisableWeb", "DisableMetrics", "DisableRestore",
   "UnprotectedMetrics", "S3.DisableSSL", "S3.SkipSSLVerification", "Foreground"}
ListFields == {"Teams.Events"}
TopFields == IntFields \cup StringFields \cup BoolFields \cup ListFields

ServiceIntFields == {"Retention.Days", "Retention.Files", "Binding.Port"}
ServiceStringFields ==
  {"Schedule", "LocalBackupPath", "Binding.Type", "Binding.Provider", "Binding.Host",
   "Binding.URI", "Binding.Username", "Binding.Password", "Binding.Database"}
ServiceBoolFields == {"DirectS3", "DisableColumnStatistics", "LogStdErr", "ForceImport"}
ServiceListFields == {"IgnoreTables", "BackupOptions", "RestoreOptions"}
ServiceDurationFields == {"Timeout"}
ServiceFields ==
  ServiceIntFields \cup ServiceStringFields \cup ServiceBoolFields
    \cup ServiceListFields \cup ServiceDurationFields

\* The zero value of an option's type.
ZeroOf(f) ==
  IF f \in IntFields \cup ServiceIntFields \cup ServiceDurationFields THEN 0
  ELSE IF f \in StringFields \cup ServiceStringFields THEN ""
  ELSE IF f \in BoolFields \cup ServiceBoolFields THEN FALSE
  ELSE <<>>

ZeroService == [f \in ServiceFields |-> ZeroOf(f)]
\* Config{Services: make(map[string]Service)}
ZeroConfig == [top |-> [f \in TopFields |-> ZeroOf(f)], services |-> <<>>]

\* json.Unmarshal(data, &c): an option the document holds is set, any other
\* keeps the value c has; a service the document holds is decoded into a
\* zero Service.
UnmarshalService(doc) ==
  [f \in ServiceFields |-> IF f \in DOMAIN doc THEN doc[f] ELSE ZeroOf(f)]

Unmarshal(c, doc) ==
  [top |-> [f \in TopFields |-> IF f \in DOMAIN doc.top THEN doc.top[f] ELSE c.top[f]],
   services |->
     [n \in DOMAIN c.services \cup DOMAIN doc.services |->
        IF n \in DOMAIN doc.services THEN UnmarshalService(doc.services[n])
        ELSE c.services[n]]]

\* The guards of the merge, by the option's type.
OverInt(cur, env) == IF env > 0 THEN env ELSE cur
OverStringFileWins(cur, env) == IF Len(cur) > 0 THEN cur ELSE env
OverString(cur, env) == IF Len(env) > 0 THEN env ELSE cur
OverBool(cur, env) == IF env THEN env ELSE cur
OverList(cur, env) == IF Len(env) > 0 THEN env ELSE cur
\* serviceConfig.Timeout.Seconds() > 1
OverTimeout(cur, env) == IF env > 1000 THEN env ELSE cur

\* "merge config values", "teams notifications", "s3"
MergeTop(c, e) ==
  [f \in TopFields |->
     CASE f = "Port" -> OverInt(c[f], e[f])
       [] f = "LogLevel" -> OverString(c[f], e[f])
       [] f = "LoggingTimestamp" -> OverBool(c[f], e[f])
       [] f = "Username" -> OverString(c[f], e[f])
       [] f = "Password" -> OverString(c[f], e[f])
       [] f = "DisableWeb" -> OverBool(c[f], e[f])
       [] f = "DisableMetrics" -> OverBool(c[f], e[f])
       [] f = "DisableRestore" -> OverBool(c[f], e[f])
       [] f = "UnprotectedMetrics" -> OverBool(c[f], e[f])
       [] f = "Teams.Webhook" -> OverString(c[f], e[f])
       [] f = "Teams.Events" -> OverList(c[f], e[f])
       [] f = "S3.DisableSSL" -> OverBool(c[f], e[f])
       [] f = "S3.SkipSSLVerification" -> OverBool(c[f], e[f])
       [] f = "S3.ServiceType" -> OverString(c[f], e[f])
       [] f = "S3.ServiceLabel" -> OverString(c[f], e[f])
       [] f = "S3.ServiceName" -> OverString(c[f], e[f])
       [] f = "S3.BucketName" -> OverString(c[f], e[f])
       [] f = "S3.EncryptionKey" -> OverString(c[f], e[f])
       [] f = "S3.Host" -> OverString(c[f], e[f])
       [] f = "S3.AccessKey" -> OverString(c[f], e[f])
       [] f = "S3.SecretKey" -> OverString(c[f], e[f])
       [] f = "Foreground" -> c[f]]

\* The body of the services loop.
MergeService(m, sc) ==
  [f \in ServiceFields |->
     CASE f = "Schedule" -> OverString(m[f], sc[f])
       [] f = "Timeout" -> OverTimeout(m[f], sc[f])
       [] f = "Retention.Days" -> OverInt(m[f], sc[f])
       [] f = "Retention.Files" -> OverInt(m[f], sc[f])
       [] f = "DirectS3" -> OverBool(m[f], sc[f])
       [] f = "DisableColumnStatistics" -> OverBool(m[f], sc[f])
       [] f = "LogStdErr" -> OverBool(m[f], sc[f])
       [] f = "ForceImport" -> OverBool(m[f], sc[f])
       [] f = "LocalBackupPath" -> OverString(m[f], sc[f])
       [] f = "IgnoreTables" -> OverList(m[f], sc[f])
       [] f = "BackupOptions" -> OverList(m[f], sc[f])
       [] f = "RestoreOptions" -> OverList(m[f], sc[f])
       [] f = "Binding.Type" -> OverString(m[f], sc[f])
       [] f = "Binding.Provider" -> OverString(m[f], sc[f])
       [] f = "Binding.Host" -> OverString(m[f], sc[f])
       [] f = "Binding.Port" -> OverInt(m[f], sc[f])
       [] f = "Binding.URI" -> OverString(m[f], sc[f])
       [] f = "Binding.Username" -> OverString(m[f], sc[f])
       [] f = "Binding.Password" -> OverString(m[f], sc[f])
       [] f = "Binding.Database" -> OverString(m[f], sc[f])]

\* (A loop that starts each entry from a zero Service would drop the file's.)
MergeServicesFromZero(cur, env) ==
  [n \in DOMAIN cur \cup DOMAIN env |->
     IF n \in DOMAIN env THEN MergeService(ZeroService, env[n]) ELSE cur[n]]

\* for serviceName, serviceConfig := range envConfig.Services
MergeServices(cur, env) ==
  [n \in DOMAIN cur \cup DOMAIN env |->
     IF n \in DOMAIN env
     THEN MergeService(IF n \in DOMAIN cur THEN cur[n] ELSE ZeroService, env[n])
     ELSE cur[n]]

MergeOverlay(c, envConfig) ==
  [top |-> MergeTop(c.top, envConfig.top),
   services |-> MergeServices(c.services, envConfig.services)]

\* strconv.Atoi: an optional sign and decimal digits; 0 with an error otherwise.
IsDigit(c) == c \in {"0", "1", "2", "3", "4", "5", "6", "7", "8", "9"}

RECURSIVE DigitsValue(_, _)
DigitsValue(s, acc) ==
  IF s = <<>> THEN acc ELSE DigitsValue(Tail(s), acc * 10 + unhex(Head(s)))

Atoi(s) ==
  LET digits == IF s # <<>> /\ Head(s) \in {"+", "-"} THEN Tail(s) ELSE s
  IN IF digits = <<>> \/ \E i \in 1..Len(digits) : ~IsDigit(digits[i]) THEN 0
     ELSE IF s # <<>> /\ Head(s) = "-" THEN 0 - DigitsValue(digits, 0)
          ELSE DigitsValue(digits, 0)

\* strings.Split(s, ",")
RECURSIVE SplitFrom(_, _)
SplitFrom(s, cur) ==
  IF s = <<>> THEN <<cur>>
  ELSE IF Head(s) = "," THEN <<cur>> \o SplitFrom(Tail(s), <<>>)
       ELSE SplitFrom(Tail(s), Append(cur, Head(s)))

Split(s) == SplitFrom(s, <<>>)

\* The environment variables read one by one.
BackmanPort == "BACKMAN_PORT"
BackmanUsername == "BACKMAN_USERNAME"
BackmanPassword == "BACKMAN_PASSWORD"
BackmanEncryptionKey == "BACKMAN_ENCRYPTION_KEY"
BackmanTeamsWebhook == "BACKMAN_TEAMS_WEBHOOK"
BackmanTeamsEvents == "BACKMAN_TEAMS_EVENTS"
CharVars == {BackmanPort, BackmanTeamsEvents}
StringVars == {BackmanUsername, BackmanPassword, BackmanEncryptionKey, BackmanTeamsWebhook}
OsVars == CharVars \cup StringVars
Unset(v) == IF v \in CharVars THEN <<>> ELSE ""

\* "set port if missing" to the end of new.
ApplyEnvVars(top, os) ==
  [f \in TopFields |->
     CASE f = "Port" -> IF top[f] = 0 THEN Atoi(os[BackmanPort]) ELSE top[f]
       [] f = "LogLevel" -> IF Len(top[f]) = 0 THEN "info" ELSE top[f]
       [] f = "Username" -> IF os[BackmanUsername] # "" THEN os[BackmanUsername] ELSE top[f]
       [] f = "Password" -> IF os[BackmanPassword] # "" THEN os[BackmanPassword] ELSE top[f]
       [] f = "S3.EncryptionKey" ->
            IF os[BackmanEncryptionKey] # "" THEN os[BackmanEncryptionKey] ELSE top[f]
       [] f = "Teams.Webhook" ->
            IF os[BackmanTeamsWebhook] # "" THEN os[BackmanTeamsWebhook] ELSE top[f]
       [] f = "Teams.Events" ->
            IF os[BackmanTeamsEvents] # <<>> THEN Split(os[BackmanTeamsEvents]) ELSE top[f]
       [] OTHER -> top[f]]

\* log.Fatalln ends the process.
Fatalln(running) == FALSE

\* new: the config file if it exists, then the overlay of BACKMAN_CONFIG if it
\* is set, then the single variables.  A document that does not parse ends
\* the process (log.Fatalln).
ParseFails(file, env) ==
  file.kind = "malformed" \/ env.kind = "malformed"

new(file, env, os) ==
  LET loaded == IF file.kind = "json" THEN Unmarshal(ZeroConfig, file) ELSE ZeroConfig
      merged == IF env.kind = "json"
                THEN MergeOverlay(loaded, Unmarshal(ZeroConfig, env))
                ELSE loaded
  IN [top |-> ApplyEnvVars(merged.top, os), services |-> merged.services]

\* ------------------------------------------------------------------- state
VARIABLES
  alive,      \* the process is running
  state,      \* state tracker: service -> [kind, phase, file]
  jobs,       \* goroutines launched by CreateBackup: <<[svc, pc, result]>>
  logged,     \* indices of the jobs whose error the goroutine has logged
  catalog,    \* object storage: service -> artifacts, most recent first
  resp,       \* the last HTTP response, with its request and service-layer call
  restore,    \* redis.Restore per redis service: [pc, objectPath, ret]
  cfgFile,    \* the config file: [kind, top, services]
  cfgEnv,     \* the document in BACKMAN_CONFIG: [kind, top, services]
  osEnv,      \* the environment variables read one by one
  config,     \* the package's config
  cfgDone     \* once: new has run

cfgVars == <<cfgFile, cfgEnv, osEnv, config, cfgDone>>
apiVars == <<state, jobs, logged, catalog, resp, restore>>
vars == <<alive, state, jobs, logged, catalog, resp, restore,
          cfgFile, cfgEnv, osEnv, config, cfgDone>>

\* ------------------------------------------------------------------ inputs
ParamTypes == {PostgresType, RedisType, "bogus"}
QueryTypes == {"", PostgresType}
RawNames == {<<"d", "b">>, <<"%", "6", "4", "b">>, <<"k", "v">>, <<"x">>, <<"%", "z">>}
RawFiles == {<<"a">>, <<"%", "6", "1">>, <<"x">>, <<"%">>, <<>>}
\* Create-backup requests: a service by its name and by its escaped name, the
\* redis service, an unknown type, an unknown name, a name that does not
\* unescape, and a name of another type's service.
CreateRequests ==
  {<<PostgresType, <<"d", "b">> >>, <<PostgresType, <<"%", "6", "4", "b">> >>,
   <<RedisType, <<"k", "v">> >>, <<"bogus", <<"d", "b">> >>,
   <<PostgresType, <<"x">> >>, <<"bogus", <<"%", "z">> >>,
   <<RedisType, <<"d", "b">> >>}
ObjectPaths == {<<"r", "/", "a">>, <<"a", "/">>}

NoRequest == [ptype |-> "", pname |-> <<>>, pfile |-> <<>>, qtype |-> ""]
NoResponse ==
  [handler |-> "none", req |-> NoRequest, status |-> 0, body |-> "none",
   call |-> NoCall, result |-> "none"]

\* ---------------------------------------------------- configuration inputs
MaxOverlayOptions == 1   \* options one BACKMAN_CONFIG document sets

ConfigServiceNames == {"db", "kv"}

AbsentDoc == [kind |-> "absent", top |-> <<>>, services |-> <<>>]
MalformedDoc == [kind |-> "malformed", top |-> <<>>, services |-> <<>>]

\* A config file that sets every option, and every option of service db.
FileValue(f) ==
  IF f \in IntFields \cup ServiceIntFields THEN 1
  ELSE IF f \in ServiceDurationFields THEN 3000
  ELSE IF f \in StringFields \cup ServiceStringFields THEN "f"
  ELSE IF f \in BoolFields \cup ServiceBoolFields THEN TRUE
  ELSE <<<<"f">>>>

FullFile ==
  [kind |-> "json", top |-> [f \in TopFields |-> FileValue(f)],
   services |-> ("db" :> [f \in ServiceFields |-> FileValue(f)])]

FileDocs == {AbsentDoc, MalformedDoc, FullFile}

\* The values a BACKMAN_CONFIG document may give an option.
OverlayValues(f) ==
  IF f \in IntFields \cup ServiceIntFields THEN {0 - 1, 0, 2}
  ELSE IF f \in ServiceDurationFields THEN {0, 1000, 2000}
  ELSE IF f \in StringFields \cup ServiceStringFields THEN {"", "e"}
  ELSE IF f \in BoolFields \cup ServiceBoolFields THEN {FALSE, TRUE}
  ELSE {<<>>, <<<<"e">>>>}

\* d with one more option: a top-level one, or one of a service.
WithTop(d, f, v) == [d EXCEPT !.top = d.top @@ (f :> v)]
WithService(d, n, f, v) ==
  [d EXCEPT !.services =
     IF n \in DOMAIN d.services
     THEN [m \in DOMAIN d.services |->
             IF m = n THEN d.services[m] @@ (f :> v) ELSE d.services[m]]
     ELSE d.services @@ (n :> (f :> v))]

RECURSIVE OverlayDocs(_)
OverlayDocs(k) ==
  IF k = 0
  THEN {[kind |-> "json", top |-> <<>>, services |-> sv] : sv \in {<<>>, ("kv" :> <<>>)}}
  ELSE LET D == OverlayDocs(k - 1)
       IN D \cup UNION {{WithTop(d, f, v) : v \in OverlayValues(f)} :
                          d \in D, f \in TopFields}
            \cup UNION {{WithService(d, nf[1], nf[2], v) : v \in OverlayValues(nf[2])} :
                          d \in D, nf \in ConfigServiceNames \X ServiceFields}

EnvDocs == {AbsentDoc, MalformedDoc} \cup OverlayDocs(MaxOverlayOptions)

AllUnset == [v \in OsVars |-> Unset(v)]
VarValues(v) ==
  IF v = BackmanPort THEN {<<"8", "0">>, <<"x">>}
  ELSE IF v = BackmanTeamsEvents THEN {<<"s", ",", "t">>}
  ELSE {"v"}
\* At most one of the variables is set.
OsEnvs == {AllUnset} \cup UNION {{[AllUnset EXCEPT ![v] = x] : x \in VarValues(v)} : v \in OsVars}

Started ==
  /\ alive = TRUE
  /\ state = [s \in Services |-> IdleState]
  /\ jobs = <<>>
  /\ logged = {}
  /\ resp = NoResponse
  /\ restore = [s \in RedisServices |-> [pc |-> "idle", objectPath |-> <<>>, ret |-> ""]]

\* The configuration of a process that found no config file and no variable.
Configured ==
  /\ cfgFile = AbsentDoc
  /\ cfgEnv = AbsentDoc
  /\ osEnv = AllUnset
  /\ config = new(AbsentDoc, AbsentDoc, AllUnset)
  /\ cfgDone = TRUE

\* The process has started; the bucket is empty.
Init ==
  /\ Started
  /\ Configured
  /\ catalog = [s \in Services |-> <<>>]

\* The process before its first config.Get.
InitConfig ==
  /\ Started
  /\ catalog = [s \in Services |-> <<>>]
  /\ cfgFile \in FileDocs
  /\ cfgEnv \in EnvDocs
  /\ osEnv \in OsEnvs
  /\ config = ZeroConfig
  /\ cfgDone = FALSE

\* The process has started over a bucket that holds earlier artifacts.
InitCatalog ==
  /\ Started
  /\ Configured
  /\ catalog \in {c \in [Services -> UNION {InitialListings(s) : s \in Services}] :
                    \A s \in Services : c[s] \in InitialListings(s)}

Serving == alive

Answer(handler, req, r, call, result) ==
  resp' = [handler |-> handler, req |-> req, status |-> r.status, body |-> r.body,
           call |-> call, result |-> result]

\* -------------------------------------------------------------- handlers
\* GET backups?service_type=&service_name=
ListBackups(req) ==
  /\ Serving
  /\ LET serviceType == req.qtype
         serviceName == QueryUnescape(req.pname)
     IN IF serviceName.err
        THEN Answer("ListBackups", req,
                    [status |-> StatusBadRequest, body |-> "invalid service name"],
                    NoCall, "none")
        ELSE \E storageFails \in BOOLEAN :
               LET b == GetBackupsLookup(catalog, serviceType, serviceName.val, storageFails)
               IN Answer("ListBackups", req, ListBackupsResponse(b),
                         [fn |-> "GetBackups", type |-> serviceType,
                          name |-> serviceName.val, file |-> <<>>, err |-> b.err], b)
  /\ UNCHANGED <<alive, state, jobs, logged, catalog, restore>>
  /\ UNCHANGED cfgVars

\* GET backup/{service_type}/{service_name}
GetBackups(req) ==
  /\ Serving
  /\ LET serviceType == req.qtype
         serviceName == QueryUnescape(req.pname)
     IN IF serviceName.err
        THEN Answer("GetBackups", req,
                    [status |-> StatusBadRequest, body |-> "invalid service name"],
                    NoCall, "none")
        ELSE \E storageFails \in BOOLEAN :
               LET b == GetBackupsLookup(catalog, serviceType, serviceName.val, storageFails)
               IN Answer("GetBackups", req, GetBackupsResponse(b),
                         [fn |-> "GetBackups", type |-> serviceType,
                          name |-> serviceName.val, file |-> <<>>, err |-> b.err], b)
  /\ UNCHANGED <<alive, state, jobs, logged, catalog, restore>>
  /\ UNCHANGED cfgVars

\* GET backup/{service_type}/{service_name}/{file}
GetBackup(req) ==
  /\ Serving
  /\ LET serviceType == req.ptype
         serviceName == QueryUnescape(req.pname)
         filename == QueryUnescape(req.pfile)
     IN IF serviceName.err
        THEN Answer("GetBackup", req,
                    [status |-> StatusBadRequest, body |-> "invalid service name"],
                    NoCall, "none")
        ELSE IF filename.err
        THEN Answer("GetBackup", req,
                    [status |-> StatusBadRequest, body |-> "invalid filename"],
                    NoCall, "none")
        ELSE \E storageFails \in BOOLEAN :
               LET b == GetBackupLookup(catalog, serviceType, serviceName.val,
                                        filename.val, storageFails)
               IN Answer("GetBackup", req, GetBackupResponse(b),
                         [fn |-> "GetBackup", type |-> serviceType,
                          name |-> serviceName.val, file |-> filename.val, err |-> b.err], b)
  /\ UNCHANGED <<alive, state, jobs, logged, catalog, restore>>
  /\ UNCHANGED cfgVars

\* DELETE backup/{service_type}/{service_name}/{file}
DeleteBackup(req) ==
  /\ Serving
  /\ LET serviceType == req.ptype
         serviceName == QueryUnescape(req.pname)
         filename == QueryUnescape(req.pfile)
     IN IF serviceName.err
        THEN /\ Answer("DeleteBackup", req,
                       [status |-> StatusBadRequest, body |-> "invalid service name"],
                       NoCall, "none")
             /\ catalog' = catalog
        ELSE IF filename.err
        THEN /\ Answer("DeleteBackup", req,
                       [status |-> StatusBadRequest, body |-> "invalid filename"],
                       NoCall, "none")
             /\ catalog' = catalog
        ELSE \E storageFails \in BOOLEAN :
               LET d == DeleteBackupResult(catalog, serviceType, serviceName.val,
                                           filename.val, storageFails)
               IN /\ Answer("DeleteBackup", req, DeleteBackupResponse(d),
                            [fn |-> "DeleteBackup", type |-> serviceType,
                             name |-> serviceName.val, file |-> filename.val,
                             err |-> d.err], "none")
                  /\ catalog' = d.cat
  /\ UNCHANGED <<alive, state, jobs, logged, restore>>
  /\ UNCHANGED cfgVars

\* POST backup/{service_type}/{service_name}: the answer is given and the
\* goroutine is launched in one step; the job runs in the steps below.
CreateBackup(req) ==
  /\ Serving
  /\ LET o == CreateBackupOutcome(req.ptype, req.pname)
     IN /\ o.launch # NoService => Len(jobs) < MaxJobs
        /\ Answer("CreateBackup", req, o, NoCall, "none")
        /\ jobs' = IF o.launch # NoService
                   THEN Append(jobs, [svc |-> o.launch, pc |-> "start", result |-> ""])
                   ELSE jobs
  /\ UNCHANGED <<alive, state, logged, catalog, restore>>
  /\ UNCHANGED cfgVars

\* ------------------------------------------------- the asynchronous job
\* service.CreateBackup, step 2: the reservation.  A refused job ends with
\* BusyError, which the goroutine logs.
JobReserve(j) ==
  /\ alive
  /\ jobs[j].pc = "start"
  /\ LET r == Reserve(state, jobs[j].svc, "backup")
     IN IF r.busy
        THEN /\ jobs' = [jobs EXCEPT ![j].pc = "done", ![j].result = "busy"]
             /\ logged' = logged \cup {j}
             /\ alive' = Errorf(alive)
             /\ state' = state
        ELSE /\ jobs' = [jobs EXCEPT ![j].pc = "queued"]
             /\ state' = r.st
             /\ UNCHANGED <<logged, alive>>
  /\ UNCHANGED <<catalog, resp, restore>>
  /\ UNCHANGED cfgVars

\* step 3: MarkRunning, then the executor runs.
JobRun(j) ==
  /\ alive
  /\ jobs[j].pc = "queued"
  /\ jobs' = [jobs EXCEPT ![j].pc = "running"]
  /\ state' = MarkRunning(state, jobs[j].svc)
  /\ UNCHANGED <<alive, logged, catalog, resp, restore>>
  /\ UNCHANGED cfgVars

\* step 3, success: the artifact is stored, then MarkSucceeded.
JobSucceed(j) ==
  /\ alive
  /\ jobs[j].pc = "running"
  /\ LET s == jobs[j].svc
         filename == ArtifactName(s, j)
     IN /\ catalog' = [catalog EXCEPT ![s] = <<NewFile(s, filename, j)>> \o catalog[s]]
        /\ state' = MarkSucceeded(state, s, filename)
  /\ jobs' = [jobs EXCEPT ![j].pc = "done", ![j].result = "ok"]
  /\ UNCHANGED <<alive, logged, resp, restore>>
  /\ UNCHANGED cfgVars

\* step 3, failure at any stage: MarkFailed; the goroutine logs the error.
JobFail(j) ==
  /\ alive
  /\ jobs[j].pc = "running"
  /\ state' = MarkFailed(state, jobs[j].svc, "backup", ArtifactName(jobs[j].svc, j))
  /\ jobs' = [jobs EXCEPT ![j].pc = "done", ![j].result = "failed"]
  /\ logged' = logged \cup {j}
  /\ alive' = Errorf(alive)
  /\ UNCHANGED <<catalog, resp, restore>>
  /\ UNCHANGED cfgVars

\* ------------------------------------------------------- redis.Restore
\* state.RestoreQueue(service)
RedisRestoreQueue(s, objectPath) ==
  /\ alive
  /\ restore[s].pc = "idle"
  /\ state' = RestoreQueue(state, s)
  /\ restore' = [restore EXCEPT ![s] = [pc |-> "queued", objectPath |-> objectPath, ret |-> ""]]
  /\ UNCHANGED <<alive, jobs, logged, catalog, resp>>
  /\ UNCHANGED cfgVars

\* log.Errorln, state.RestoreFailure(service, filepath.Base(objectPath)), return
RedisRestoreReturn(s) ==
  /\ alive
  /\ restore[s].pc = "queued"
  /\ LET filename == Base(restore[s].objectPath)
     IN state' = RestoreFailure(state, s, filename)
  /\ restore' = [restore EXCEPT ![s].pc = "idle", ![s].ret = "redis restore: unsupported"]
  /\ UNCHANGED <<alive, jobs, logged, catalog, resp>>
  /\ UNCHANGED cfgVars

\* The create-backup request, its jobs, and redis.Restore.
Next ==
  \/ \E r \in CreateRequests :
       CreateBackup([ptype |-> r[1], pname |-> r[2], pfile |-> <<>>, qtype |-> ""])
  \/ \E j \in 1..Len(jobs) : JobReserve(j)
  \/ \E j \in 1..Len(jobs) : JobRun(j)
  \/ \E j \in 1..Len(jobs) : JobSucceed(j)
  \/ \E j \in 1..Len(jobs) : JobFail(j)
  \/ \E s \in RedisServices, p \in ObjectPaths : RedisRestoreQueue(s, p)
  \/ \E s \in RedisServices : RedisRestoreReturn(s)

Spec == Init /\ [][Next]_vars

\* The requests that read and delete the catalog's artifacts.
NextCatalog ==
  \/ \E q \in QueryTypes, n \in RawNames \cup {<<>>} :
       ListBackups([ptype |-> "", pname |-> n, pfile |-> <<>>, qtype |-> q])
  \/ \E t \in ParamTypes, q \in QueryTypes, n \in RawNames \cup {<<>>} :
       GetBackups([ptype |-> t, pname |-> n, pfile |-> <<>>, qtype |-> q])
  \/ \E t \in ParamTypes, n \in RawNames, f \in RawFiles :
       GetBackup([ptype |-> t, pname |-> n, pfile |-> f, qtype |-> ""])
  \/ \E t \in ParamTypes, n \in RawNames, f \in RawFiles :
       DeleteBackup([ptype |-> t, pname |-> n, pfile |-> f, qtype |-> ""])

SpecCatalog == InitCatalog /\ [][NextCatalog]_vars

\* ------------------------------------------------------------ config.Get
\* The first Get: once.Do runs new.
ConfigGetFirst ==
  /\ alive
  /\ ~cfgDone
  /\ IF ParseFails(cfgFile, cfgEnv)
     THEN /\ alive' = Fatalln(alive)
          /\ UNCHANGED <<config, cfgDone>>
     ELSE /\ config' = new(cfgFile, cfgEnv, osEnv)
          /\ cfgDone' = TRUE
          /\ alive' = alive
  /\ UNCHANGED <<cfgFile, cfgEnv, osEnv>>
  /\ UNCHANGED apiVars

\* A later Get answers the same config.
ConfigGetAgain ==
  /\ alive
  /\ cfgDone
  /\ UNCHANGED vars

NextConfig ==
  \/ ConfigGetFirst
  \/ ConfigGetAgain

SpecConfig == InitConfig /\ [][NextConfig]_vars

\* ------------------------------------------------------------------ claims
\* C1: every call of redis.Restore returns the unsupported error and leaves the
\* operation state of its service as it was, at each step of the call.
C1_RestoreLeavesStateUnchanged ==
  [][\A s \in RedisServices :
       restore'[s] # restore[s] =>
         /\ state'[s] = state[s]
         /\ (restore'[s].pc = "idle" => restore'[s].ret = "redis restore: unsupported")]_vars

\* C2: single-flight.  Of the create-backup requests for one service, one is
\* accepted and has a job; no second job exists for that service until the
\* first has ended, so at most one is queued or running.
LiveJobs(s) == {j \in 1..Len(jobs) : jobs[j].svc = s /\ jobs[j].pc # "done"}
ReservedJobs(s) ==
  {j \in 1..Len(jobs) : jobs[j].svc = s /\ jobs[j].pc \in {"queued", "running"}}

\* C2: at most one live job, and at most one queued or running job, per service.
C2_SingleFlight ==
  \A s \in Services :
    /\ Cardinality(LiveJobs(s)) <= 1
    /\ Cardinality(ReservedJobs(s)) <= 1

\* C3: a create-backup request answers 202 with the service descriptor and a
\* job that has not run yet, and launches a job in that case only; an invalid
\* name or an unknown type answers 400, an unknown service 404, and these
\* launch no job and leave the operation state alone.
\* A step of the handler: it answers another request, or the same request
\* again and launches another job.
IsCreateBackupStep ==
  /\ resp'.handler = "CreateBackup"
  /\ \/ resp'.handler # resp.handler
     \/ resp'.req # resp.req
     \/ Len(jobs') > Len(jobs)

\* C3: the answer and the launch of every create-backup step.
C3_CreateBackupAnswers ==
  [][IsCreateBackupStep =>
       LET name == QueryUnescape(resp'.req.pname)
           known == \E s \in Services : s.Type = resp'.req.ptype /\ s.Name = name.val
       IN /\ state' = state
          /\ (name.err \/ resp'.req.ptype \notin ValidServiceTypes)
               => resp'.status = StatusBadRequest
          /\ (~name.err /\ resp'.req.ptype \in ValidServiceTypes /\ ~known)
               => resp'.status = StatusNotFound
          /\ (~name.err /\ resp'.req.ptype \in ValidServiceTypes /\ known)
               => /\ resp'.status = StatusAccepted
                  /\ resp'.body = [Name |-> name.val, Type |-> resp'.req.ptype]
          /\ resp'.status = StatusAccepted
               => /\ Len(jobs') = Len(jobs) + 1
                  /\ SubSeq(jobs', 1, Len(jobs)) = jobs
                  /\ jobs'[Len(jobs')].pc = "start"
                  /\ jobs'[Len(jobs')].svc = [Type |-> resp'.req.ptype, Name |-> name.val]
          /\ resp'.status # StatusAccepted => jobs' = jobs]_vars

C3_Witness ==
  /\ resp.handler = "CreateBackup"
  /\ resp.status = StatusNotFound
  /\ Len(jobs) = 1
  /\ jobs[1].pc = "running"

\* C7: a failing job is only logged: the process lives, the response given is
\* untouched, and no other job, no other service's state and no artifact changes.
JobFailedStep(j) ==
  /\ jobs[j].pc # "done"
  /\ jobs'[j].pc = "done"
  /\ jobs'[j].result # "ok"

\* C7: a step in which a job ends with an error changes nothing but that job.
C7_JobErrorsStayInJob ==
  [][\A j \in 1..Len(jobs) :
       JobFailedStep(j) =>
         /\ alive'
         /\ j \in logged'
         /\ resp' = resp
         /\ Len(jobs') = Len(jobs)
         /\ \A k \in 1..Len(jobs) : k # j => jobs'[k] = jobs[k]
         /\ \A t \in Services : t # jobs[j].svc => state'[t] = state[t]
         /\ catalog' = catalog]_vars

C7_Witness ==
  \E j, k \in 1..Len(jobs) :
    /\ jobs[j].result = "failed"
    /\ j \in logged
    /\ jobs[k].svc # jobs[j].svc
    /\ jobs[k].pc = "running"
    /\ state[jobs[k].svc].phase = "running"
    /\ resp.status = StatusAccepted
    /\ alive

\* C10: the phase of a service changes only along idle -> queued -> running ->
\* {succeeded, failed} -> queued; failed and succeeded are entered from running.
PhaseEdges ==
  {<<"idle", "queued">>, <<"queued", "running">>, <<"running", "succeeded">>,
   <<"running", "failed">>, <<"succeeded", "queued">>, <<"failed", "queued">>}

\* C10: every change of a service's phase is one of PhaseEdges.
C10_PhaseEdges ==
  [][\A s \in Services :
       state'[s].phase # state[s].phase =>
         <<state[s].phase, state'[s].phase>> \in PhaseEdges]_vars

\* C5: a delete of a key that does not exist is answered apart from a storage
\* failure (never with the storage failure's status), a delete that succeeds
\* is answered 204.
C5_DeleteNotFoundDistinct ==
  (resp.handler = "DeleteBackup" /\ resp.call.fn = "DeleteBackup") =>
    /\ resp.call.err = "" => resp.status = StatusNoContent
    /\ resp.call.err = "storage" => resp.status = StatusInternalServerError
    /\ resp.call.err = "notfound" => resp.status # StatusInternalServerError

\* C6: GET backup/{type}/{name} looks the service up by the path's type and
\* name, answers 200 with the one record found and 404 otherwise.
C6_GetBackupsByPathType ==
  (resp.handler = "GetBackups" /\ resp.call.fn = "GetBackups") =>
    /\ resp.call.type = resp.req.ptype
    /\ resp.call.name = QueryUnescape(resp.req.pname).val
    /\ (resp.result.err = "" /\ Len(resp.result.backups) = 1)
         => resp.status = StatusOK
    /\ (resp.result.err # "" \/ Len(resp.result.backups) # 1)
         => resp.status = StatusNotFound

\* C8: a list request whose lookup succeeds answers 200 with an array, empty
\* when no record was found and never null; a record without artifacts has an
\* empty Files array; 404 is answered only when the lookup failed.
C8_EmptyListingIsNoError ==
  (resp.handler = "ListBackups" /\ resp.call.fn = "GetBackups") =>
    /\ resp.result.err = "" =>
         /\ resp.status = StatusOK
         /\ ~resp.body.null
         /\ Len(resp.body.array) = Len(resp.result.backups)
         /\ \A i \in 1..Len(resp.body.array) :
              /\ ~resp.body.array[i].Files.null
              /\ Len(resp.body.array[i].Files.array)
                   = Len(resp.result.backups[i].Files.elems)
    /\ resp.status = StatusNotFound => resp.result.err # ""

C8_Witness ==
  /\ resp.handler = "ListBackups"
  /\ resp.status = StatusOK
  /\ resp.result.err = ""
  /\ Len(resp.result.backups) = 0
  /\ resp.body = [null |-> FALSE, array |-> <<>>]

\* A listing of one record that has no artifact.
C8_WitnessNoArtifacts ==
  /\ resp.handler = "ListBackups"
  /\ resp.status = StatusOK
  /\ Len(resp.body.array) = 1
  /\ resp.result.backups[1].Files.nil
  /\ resp.body.array[1].Files = [null |-> FALSE, array |-> <<>>]

\* C9: GET backup/{type}/{name}/{file} answers 404 when the lookup fails, when
\* the record has no artifact or when its first artifact has no filename, so
\* a 200 carries a Files array whose first artifact has a filename.
C9_GetBackupNeedsArtifact ==
  (resp.handler = "GetBackup" /\ resp.call.fn = "GetBackup") =>
    /\ resp.result.err # "" => resp.status = StatusNotFound
    /\ (resp.result.err = "" /\ Len(resp.result.backup.Files.elems) = 0)
         => resp.status = StatusNotFound
    /\ (resp.result.err = "" /\ Len(resp.result.backup.Files.elems) > 0
          /\ resp.result.backup.Files.elems[1].Filename = <<>>)
         => resp.status = StatusNotFound
    /\ resp.status = StatusOK =>
         /\ ~resp.body.Files.null
         /\ Len(resp.body.Files.array) > 0
         /\ Len(resp.body.Files.array[1].Filename) > 0
         /\ resp.body.Files.array[1].Filename = resp.call.file

C9_Witness ==
  /\ resp.handler = "GetBackup"
  /\ resp.status = StatusNotFound
  /\ resp.result.err = ""
  /\ Len(resp.result.backup.Files.elems) = 1
  /\ resp.result.backup.Files.elems[1].Filename = <<>>

\* The artifact exists and is answered.
C9_WitnessFound ==
  /\ resp.handler = "GetBackup"
  /\ resp.status = StatusOK
  /\ resp.req.pfile = <<"%", "6", "1">>
  /\ resp.body.Files.array[1].Filename = <<"a">>

\* C4 as stated: every option the overlay document holds has the document's
\* value in the resolved configuration, whatever the config file holds.
ClaimedServiceFields ==
  {"Schedule", "Timeout", "Retention.Days", "Retention.Files", "IgnoreTables",
   "BackupOptions", "RestoreOptions", "DirectS3"}

\* C4 as stated: every overlay value is the resolved value.
C4_OverlayAlwaysWins ==
  (cfgDone /\ cfgEnv.kind = "json") =>
    /\ \A f \in DOMAIN cfgEnv.top : config.top[f] = cfgEnv.top[f]
    /\ \A n \in DOMAIN cfgEnv.services :
         \A f \in DOMAIN cfgEnv.services[n] \cap ClaimedServiceFields :
           config.services[n][f] = cfgEnv.services[n][f]

\* C4, amended: an option the overlay sets to a value that is not its type's
\* zero value (a positive number, a non-empty string or list, true; a timeout
\* above one second) has the overlay's value in the resolved configuration,
\* whatever the config file holds; Foreground is not taken from the overlay,
\* and username, password, encryption key, Teams webhook and Teams events
\* come from their own environment variable when that one is set.
IsSetValue(f, v) ==
  IF f \in IntFields \cup ServiceIntFields THEN v > 0
  ELSE IF f \in ServiceDurationFields THEN v > 1000
  ELSE IF f \in StringFields \cup ServiceStringFields THEN v # ""
  ELSE IF f \in BoolFields \cup ServiceBoolFields THEN v
  ELSE v # <<>>

OwnVariableSet(f) ==
  \/ f = "Username" /\ osEnv[BackmanUsername] # ""
  \/ f = "Password" /\ osEnv[BackmanPassword] # ""
  \/ f = "S3.EncryptionKey" /\ osEnv[BackmanEncryptionKey] # ""
  \/ f = "Teams.Webhook" /\ osEnv[BackmanTeamsWebhook] # ""
  \/ f = "Teams.Events" /\ osEnv[BackmanTeamsEvents] # <<>>

\* C4, amended: a set overlay value is the resolved value.
C4_SetOverlayValueWins ==
  (cfgDone /\ cfgEnv.kind = "json") =>
    /\ \A f \in DOMAIN cfgEnv.top \ {"Foreground"} :
         (IsSetValue(f, cfgEnv.top[f]) /\ ~OwnVariableSet(f))
           => config.top[f] = cfgEnv.top[f]
    /\ \A n \in DOMAIN cfgEnv.services :
         \A f \in DOMAIN cfgEnv.services[n] \cap ClaimedServiceFields :
           IsSetValue(f, cfgEnv.services[n][f])
             => config.services[n][f] = cfgEnv.services[n][f]

C4_Witness ==
  /\ cfgDone
  /\ cfgFile = FullFile
  /\ cfgEnv.kind = "json"
  /\ "db" \in DOMAIN cfgEnv.services
  /\ "Timeout" \in DOMAIN cfgEnv.services["db"]
  /\ cfgEnv.services["db"]["Timeout"] = 2000
  /\ config.services["db"]["Timeout"] = 2000
  /\ config.services["db"]["Schedule"] = "f"

\* The value a document gives an option: the one it holds, or the zero value
\* json.Unmarshal leaves in a fresh Config.
DocTop(doc, f) == IF f \in DOMAIN doc.top THEN doc.top[f] ELSE ZeroOf(f)
DocService(doc, n, f) ==
  IF f \in DOMAIN doc.services[n] THEN doc.services[n][f] ELSE ZeroOf(f)

\* The steps after the overlay that give a top-level option another value:
\* its own environment variable, the port and log level defaults.
SetAfterOverlay(f) ==
  \/ OwnVariableSet(f)
  \/ f \in {"Port", "LogLevel"} /\ DocTop(cfgFile, f) = ZeroOf(f)

\* Top-level options the overlay does not take keep the file's value.
TopFrame ==
  \A f \in TopFields :
    (~IsSetValue(f, DocTop(cfgEnv, f)) /\ ~SetAfterOverlay(f))
      => config.top[f] = DocTop(cfgFile, f)

\* Fields of a service in both documents that the overlay's entry does not
\* set keep the file's value.
ServiceFieldFrame ==
  \A n \in DOMAIN cfgEnv.services \cap DOMAIN cfgFile.services :
    \A f \in ServiceFields :
      ~IsSetValue(f, DocService(cfgEnv, n, f))
        => config.services[n][f] = DocService(cfgFile, n, f)

\* Services of the file alone are unchanged, and no other service appears.
FileOnlyServiceFrame ==
  /\ DOMAIN config.services = DOMAIN cfgFile.services \cup DOMAIN cfgEnv.services
  /\ \A n \in DOMAIN cfgFile.services \ DOMAIN cfgEnv.services :
       \A f \in ServiceFields : config.services[n][f] = DocService(cfgFile, n, f)

OverlayOnlyServices == DOMAIN cfgEnv.services \ DOMAIN cfgFile.services

\* C11 as stated: the frame of the overlay, and a service of the overlay alone
\* is added with every value its entry holds.
C11_OverlayFrameAddsAllFields ==
  (cfgDone /\ cfgEnv.kind = "json") =>
    /\ TopFrame
    /\ ServiceFieldFrame
    /\ FileOnlyServiceFrame
    /\ \A n \in OverlayOnlyServices :
         \A f \in ServiceFields : config.services[n][f] = DocService(cfgEnv, n, f)

\* C11, amended: an option the overlay leaves at its zero value keeps the
\* file's value, a field the overlay's entry for a service does not set keeps
\* its file value, a service of the file alone is unchanged, and a service of
\* the overlay alone is added with the fields of its entry that the merge
\* takes (a positive number, a non-empty string or list, true, a timeout above
\* one second), every other field being zero.
C11_OverlayFrame ==
  (cfgDone /\ cfgEnv.kind = "json") =>
    /\ TopFrame
    /\ ServiceFieldFrame
    /\ FileOnlyServiceFrame
    /\ \A n \in OverlayOnlyServices :
         \A f \in ServiceFields :
           config.services[n][f] =
             IF IsSetValue(f, DocService(cfgEnv, n, f))
             THEN DocService(cfgEnv, n, f) ELSE ZeroOf(f)

\* The overlay adds service kv with a schedule over a file that holds db.
C11_Witness ==
  /\ cfgDone
  /\ cfgFile = FullFile
  /\ cfgEnv.kind = "json"
  /\ DOMAIN cfgEnv.services = {"kv"}
  /\ DOMAIN cfgEnv.services["kv"] = {"Schedule"}
  /\ config.services["kv"]["Schedule"] = "e"
  /\ config.services["kv"]["Timeout"] = 0
  /\ config.services["db"] = FullFile.services["db"]
  /\ config.top["LogLevel"] = "f"

\* The overlay sets one field of db; the others keep the file's value.
C11_WitnessFieldKept ==
  /\ cfgDone
  /\ cfgFile = FullFile
  /\ cfgEnv.kind = "json"
  /\ DOMAIN cfgEnv.services = {"db"}
  /\ DOMAIN cfgEnv.services["db"] = {"Schedule"}
  /\ config.services["db"]["Schedule"] = "e"
  /\ config.services["db"]["Timeout"] = 3000
  /\ config.services["db"]["IgnoreTables"] = <<<<"f">>>>

\* The overlay gives a top-level option its zero value; the file's stays.
C11_WitnessTopKept ==
  /\ cfgDone
  /\ cfgFile = FullFile
  /\ cfgEnv.kind = "json"
  /\ DOMAIN cfgEnv.top = {"DisableWeb"}
  /\ cfgEnv.top["DisableWeb"] = FALSE
  /\ config.top["DisableWeb"] = TRUE

\* A service of the overlay alone with a timeout of one second is added
\* without it.
C11_WitnessTimeoutNotTaken ==
  /\ cfgDone
  /\ cfgEnv.kind = "json"
  /\ "kv" \in OverlayOnlyServices
  /\ DOMAIN cfgEnv.services["kv"] = {"Timeout"}
  /\ cfgEnv.services["kv"]["Timeout"] = 1000
  /\ config.services["kv"]["Timeout"] = 0

====
